---- MODULE Spec2Model ----
(***************************************************************************)
(* Model of the polling pipeline of VisaStatusMonitor:                     *)
(*   - VisaScheduler        (backend/app/core/scheduler.py)                *)
(*   - BasePlugin           (backend/app/plugins/base_plugin.py)           *)
(*   - PluginManager        (backend/app/plugins/plugin_manager.py)        *)
(*   - QueryEngine          (backend/app/services/query_engine.py)         *)
(*                                                                         *)
(* The scheduler and the query engine share no state in the source (the    *)
(* job function VisaScheduler._execute_query never calls the engine), so   *)
(* each has its own next-state relation and specification over the same    *)
(* variables: SchedulerSpec and EngineSpec.  Spec is their composition.    *)
(* ParseSpec applies _parse_interval to every short string, RegistrySpec   *)
(* runs the registry's reloads against a reader, and CallersSpec runs      *)
(* execute_query statement by statement for several workers.               *)
(***************************************************************************)
EXTENDS Integers, Sequences, FiniteSets, TLC

\* ------------------------------------------------------------------ bounds
\* Number of monitored entities (Application ids 1..NumEntities).
NumEntities == 2

\* Number of execute_query calls explored (also the range of the clock).
MaxPolls == 2

\* Longest interval string handed to _parse_interval on its own.
MaxIntervalLen == 3

\* Number of workers that may be inside execute_query at the same time.
NumCallers == 2

\* Number of plugin modules pkgutil.iter_modules finds in the plugins directory.
NumPluginModules == 2

\* Most letters, and most digits, of the query codes handed to the Czech plugin.
MaxLetters == 3

MaxDigits == 9

\* Number of reload_plugin / reload_all_plugins calls explored.
MaxReloads == 1

Entities == 1..NumEntities

\* ------------------------------------------------------------ scheduler.py
\* job_defaults['max_instances'] of the AsyncIOScheduler: the number of runs of
\* one job the executor lets be in flight together.  (job_defaults['coalesce']
\* is False: overdue run times of a job are not merged into one run.)
max_instances == 3

\* The value _parse_interval falls back to ("默认1小时").
default_interval == 3600

\* Mutant of JobId: the application id is left out of the job id.
JobId_Shared(application_id) == <<"query_app_", 0>>

\* job_id = f"query_app_{application_id}"
JobId(application_id) == <<"query_app_", application_id>>

\* The job add_query_job builds: its id and the seconds of its IntervalTrigger.
Job(application_id, seconds) == [id |-> JobId(application_id), seconds |-> seconds]

\* The jobs of a job store that carry the id job_id.
lookup_job(store, job_id) == { j \in store : j.id = job_id }

\* Mutant of add_job: replace_existing is ignored, the job is stored as well.
add_job_NoReplace(store, job) == store \cup {job}

\* scheduler.add_job(..., id=job_id, replace_existing=True): the job takes the
\* place of the stored job of the same id, if there is one.
add_job(store, job) == (store \ lookup_job(store, job.id)) \cup {job}

\* Mutant of remove_job: nothing is removed and nothing is raised.
remove_job_Noop(store, job_id) == [jobs |-> store, raised |-> FALSE]

\* scheduler.remove_job(job_id): raises JobLookupError when no job has the id.
remove_job(store, job_id) ==
    IF lookup_job(store, job_id) = {}
    THEN [jobs |-> store, raised |-> TRUE]
    ELSE [jobs |-> store \ lookup_job(store, job_id), raised |-> FALSE]

\* Mutant of Due: a run is started whether or not the job is in the store.
Due_IgnoresJobStore(is_running, store, application_id) == is_running

\* The scheduler's main loop submits runs of the jobs it finds in the job
\* store, and only while it is running.
Due(is_running, store, application_id) ==
    is_running /\ lookup_job(store, JobId(application_id)) # {}

Digits == {"0", "1", "2", "3", "4", "5", "6", "7", "8", "9"}

DigitValue(c) ==
    CASE c = "0" -> 0 [] c = "1" -> 1 [] c = "2" -> 2 [] c = "3" -> 3
      [] c = "4" -> 4 [] c = "5" -> 5 [] c = "6" -> 6 [] c = "7" -> 7
      [] c = "8" -> 8 [] c = "9" -> 9

\* str.lower() on the unit characters the model uses.
Lower(c) ==
    CASE c = "M" -> "m" [] c = "H" -> "h" [] c = "D" -> "d" [] c = "W" -> "w"
      [] OTHER -> c

\* interval[:-1]
ButLast(s) == SubSeq(s, 1, Len(s) - 1)

RECURSIVE DigitsValue(_)
DigitsValue(s) ==
    IF s = <<>> THEN 0
    ELSE 10 * DigitsValue(ButLast(s)) + DigitValue(s[Len(s)])

\* int(text) succeeds: an optional sign followed by at least one digit.
IsIntLiteral(s) ==
    LET body == IF s # <<>> /\ s[1] \in {"+", "-"} THEN Tail(s) ELSE s
    IN  body # <<>> /\ \A i \in 1..Len(body) : body[i] \in Digits

\* int(text) for a text IsIntLiteral accepts.
IntOf(s) ==
    IF s[1] = "-" THEN 0 - DigitsValue(Tail(s))
    ELSE IF s[1] = "+" THEN DigitsValue(Tail(s))
    ELSE DigitsValue(s)

\* multipliers.get(unit, 3600)
multipliers(unit) ==
    CASE unit = "m" -> 60
      [] unit = "h" -> 3600
      [] unit = "d" -> 86400
      [] unit = "w" -> 604800
      [] OTHER -> 3600

\* VisaScheduler._parse_interval: interval is a sequence of characters.
_parse_interval(interval) ==
    IF interval = <<>> THEN default_interval
    ELSE IF ~IsIntLiteral(ButLast(interval)) THEN default_interval
    ELSE IntOf(ButLast(interval)) * multipliers(Lower(interval[Len(interval)]))

\* Interval strings handed to add_query_job: "1m" and "2H" (every other
\* string is explored on _parse_interval alone, see IntervalStrings).
IntervalInputs == { <<"1", "m">>, <<"2", "H">> }

\* Characters of the interval strings _parse_interval is explored on: digits,
\* a sign, the four units (one in upper case) and a letter that is no unit.
IntervalChars == {"0", "1", "2", "3", "-", "m", "h", "H", "d", "w", "x"}

RECURSIVE StringsUpTo(_)
StringsUpTo(n) ==
    IF n = 0 THEN { <<>> }
    ELSE LET shorter == StringsUpTo(n - 1)
         IN  shorter \cup { Append(s, c) : s \in shorter, c \in IntervalChars }

\* Every value of Application.query_interval up to MaxIntervalLen characters.
IntervalStrings == StringsUpTo(MaxIntervalLen)

\* ---------------------------------------------------------- base_plugin.py
\* Python's None, for the optional text fields.
NoneValue == "None"

\* QueryResult.__init__: query_timestamp is the time of construction and
\* response_time_ms stays None until safe_query_status attaches it.
QueryResult(status, application_status, details, error, now) ==
    [status |-> status, application_status |-> application_status,
     details |-> details, error |-> error,
     response_time_ms |-> NoneValue, query_timestamp |-> now]

\* What a plugin's validate_query_code may do when called.
ValidateOutcomes == {"accept", "reject", "raise"}

\* Application statuses and detail texts a plugin reports in the model.
ObservedStatuses == {"processing", "approved"}

DetailTexts == {"d1", "d2"}

Outcome(kind, status, application_status, details, error) ==
    [kind |-> kind, status |-> status, application_status |-> application_status,
     details |-> details, error |-> error]

\* What a plugin's query_status may do when called: return a success result,
\* return an error result, return no result (None), or raise.
QueryOutcomes ==
    { Outcome("result", "success", s, d, NoneValue) : s \in ObservedStatuses, d \in DetailTexts }
    \cup { Outcome("result", "error", NoneValue, NoneValue, "network error"),
           Outcome("none", NoneValue, NoneValue, NoneValue, NoneValue),
           Outcome("raise", NoneValue, NoneValue, NoneValue, "query raised") }

\* The outcomes explored where calls interleave: a status, or an error.
CallerOutcomes ==
    { Outcome("result", "success", s, "d1", NoneValue) : s \in ObservedStatuses }
    \cup { Outcome("result", "error", NoneValue, NoneValue, "network error") }

\* Placeholders for a plugin method that was not called.
NotCalled == "not_called"

OutcomeNotCalled == Outcome(NotCalled, NoneValue, NoneValue, NoneValue, NoneValue)

\* How a call ends: it returns a QueryResult, or an exception leaves it.
Returned(result, validate_calls, query_calls) ==
    [raised |-> FALSE, result |-> result, error |-> NoneValue,
     validate_calls |-> validate_calls, query_calls |-> query_calls]

Raised(error, validate_calls, query_calls) ==
    [raised |-> TRUE, result |-> NoneValue, error |-> error,
     validate_calls |-> validate_calls, query_calls |-> query_calls]

\* Mutant of safe_query_status: the validation gate is missing.
safe_query_status_NoGate(validate_outcome, query_outcome, now) ==
    IF query_outcome.kind \in {"raise", "none", NotCalled}
    THEN Returned(QueryResult("error", NoneValue, NoneValue, query_outcome.error, now), 1, 1)
    ELSE Returned([QueryResult(query_outcome.status, query_outcome.application_status,
                               query_outcome.details, query_outcome.error, now)
                      EXCEPT !.response_time_ms = "measured"], 1, 1)

\* Mutant of safe_query_status: an exception of query_status is not caught.
safe_query_status_Unguarded(validate_outcome, query_outcome, now) ==
    IF validate_outcome = "raise"
    THEN Returned(QueryResult("error", NoneValue, NoneValue, "validate raised", now), 1, 0)
    ELSE IF validate_outcome = "reject"
    THEN Returned(QueryResult("error", NoneValue, NoneValue, "Invalid query code format", now), 1, 0)
    ELSE IF query_outcome.kind \in {"raise", "none"}
    THEN Raised(query_outcome.error, 1, 1)
    ELSE Returned([QueryResult(query_outcome.status, query_outcome.application_status,
                               query_outcome.details, query_outcome.error, now)
                      EXCEPT !.response_time_ms = "measured"], 1, 1)

\* BasePlugin.safe_query_status: validate first, then query_status under
\* _measure_response_time; every exception raised inside the try (by validate,
\* by query_status, or by using a None result) becomes an error result.
safe_query_status(validate_outcome, query_outcome, now) ==
    IF validate_outcome = "raise"
    THEN Returned(QueryResult("error", NoneValue, NoneValue, "validate raised", now), 1, 0)
    ELSE IF validate_outcome = "reject"
    THEN Returned(QueryResult("error", NoneValue, NoneValue, "Invalid query code format", now), 1, 0)
    ELSE IF query_outcome.kind = "raise"
    THEN Returned(QueryResult("error", NoneValue, NoneValue, query_outcome.error, now), 1, 1)
    ELSE IF query_outcome.kind = "none"
    THEN Returned(QueryResult("error", NoneValue, NoneValue, "NoneType has no attribute", now), 1, 1)
    ELSE Returned([QueryResult(query_outcome.status, query_outcome.application_status,
                               query_outcome.details, query_outcome.error, now)
                      EXCEPT !.response_time_ms = "measured"], 1, 1)

\* ------------------------------------------------------- plugin_manager.py
\* Country codes an Application may carry: registered, registered in lower
\* case, unregistered, and a missing value (None).
CountryCodes == {"CZ", "cz", "XX", NoneValue}

\* str.upper() on the country codes of the model.
Upper(country_code) ==
    CASE country_code = "cz" -> "CZ"
      [] country_code = "xx" -> "XX"
      [] OTHER -> country_code

\* No instance registered (dict.get returns None).
NoPlugin == 0

\* Mutant of get_plugin: an unknown country falls back to some plugin.
get_plugin_Fallback(registry, country_code) ==
    IF Upper(country_code) \in DOMAIN registry THEN registry[Upper(country_code)]
    ELSE 1

\* PluginManager.get_plugin: self.plugins.get(country_code.upper())
get_plugin(registry, country_code) ==
    IF Upper(country_code) \in DOMAIN registry THEN registry[Upper(country_code)]
    ELSE NoPlugin

\* Mutant of serving_plugin: the instance is looked up again at the call.
serving_plugin_Reread(plugin, registry, country_code) == get_plugin(registry, country_code)

\* The instance whose safe_query_status PluginManager.query_status calls: the
\* one bound to its local variable plugin.
serving_plugin(plugin, registry, country_code) == plugin

\* PluginManager.query_status.  country_code.upper() raises AttributeError on
\* None; an unregistered country yields an error result; otherwise the call
\* is delegated to the plugin's safe_query_status.
PluginManager_query_status(registry, country_code, validate_outcome, query_outcome, now) ==
    IF country_code = NoneValue
    THEN Raised("NoneType has no attribute upper", 0, 0)
    ELSE IF get_plugin(registry, country_code) = NoPlugin
    THEN Returned(QueryResult("error", NoneValue, NoneValue, "No plugin available for country", now), 0, 0)
    ELSE safe_query_status(validate_outcome, query_outcome, now)

\* PluginManager.is_country_supported
is_country_supported(registry, country_code) == Upper(country_code) \in DOMAIN registry

\* PluginManager.get_supported_countries (as a set)
get_supported_countries(registry) == DOMAIN registry

\* PluginManager.get_plugin_stats: len(self.plugins) and the list of keys.
get_plugin_stats(registry) ==
    [total_plugins |-> Cardinality(DOMAIN registry),
     supported_countries |-> get_supported_countries(registry)]

\* get_supported_query_types of a plugin (that of CzechPlugin).
SupportedQueryTypes == <<"visa", "residence", "passport">>

\* PluginManager.get_query_types
get_query_types(registry, country_code) ==
    IF get_plugin(registry, country_code) = NoPlugin THEN <<>> ELSE SupportedQueryTypes

\* PluginManager.validate_query_code: False without a plugin, otherwise what
\* the plugin's validate_query_code does (an exception of it is not caught).
validate_query_code(registry, country_code, validate_outcome) ==
    IF get_plugin(registry, country_code) = NoPlugin
    THEN [value |-> FALSE, raised |-> FALSE, validate_calls |-> 0]
    ELSE [value |-> validate_outcome = "accept", raised |-> validate_outcome = "raise",
          validate_calls |-> 1]

\* PluginManager.test_plugin_connection: False without a plugin, otherwise
\* what the plugin's test_connection returns.
test_plugin_connection(registry, country_code, connection_ok) ==
    IF get_plugin(registry, country_code) = NoPlugin THEN FALSE ELSE connection_ok

\* A dict without keys, and d[k] = v.
EmptyDict == [k \in {} |-> NoPlugin]

dict_set(d, k, v) == [x \in (DOMAIN d) \cup {k} |-> IF x = k THEN v ELSE d[x]]

\* The plugin modules of the plugins directory, in the (sorted) order of
\* pkgutil.iter_modules.  Module 1 is czech_plugin; the others stand for
\* plugin files dropped into the directory, one plugin class each.
PluginModules == 1..NumPluginModules

ModuleCountries == <<"CZ", "DE", "SK", "AT">>

\* get_country_code() of the plugin class of module m.
get_country_code(m) == ModuleCountries[m]

\* What loading a module does: the class is instantiated, the import raises,
\* or the constructor raises.
LoadOutcomes == {"ok", "import_error", "init_error"}

\* The manager's two maps and the number of plugin instances created so far
\* (instance ids are 1, 2, ...).
Registry(instances, classes, n, made) ==
    [plugins |-> instances, plugin_classes |-> classes, created |-> n,
     instantiated |-> made]

\* Mutant of load_module: the class is registered before it is instantiated,
\* so a constructor that raises leaves a class without an instance.
load_module_ClassFirst(reg, m, outcome) ==
    IF outcome = "ok"
    THEN Registry(dict_set(reg.plugins, get_country_code(m), reg.created + 1),
                  dict_set(reg.plugin_classes, get_country_code(m), m),
                  reg.created + 1, Append(reg.instantiated, m))
    ELSE IF outcome = "init_error"
    THEN Registry(reg.plugins, dict_set(reg.plugin_classes, get_country_code(m), m),
                  reg.created, reg.instantiated)
    ELSE reg

\* One iteration of the for loop of _load_plugins: both exceptions are caught
\* and logged; a new instance is registered under its country code.
load_module(reg, m, outcome) ==
    IF outcome = "ok"
    THEN Registry(dict_set(reg.plugins, get_country_code(m), reg.created + 1),
                  dict_set(reg.plugin_classes, get_country_code(m), m),
                  reg.created + 1, Append(reg.instantiated, m))
    ELSE reg

\* Mutant of NextModule: a module that fails ends the loading.
NextModule_StopOnFailure(m, outcome) ==
    IF outcome = "ok" THEN m + 1 ELSE NumPluginModules + 1

\* The module the loop of _load_plugins goes on with after module m.
NextModule(m, outcome) == m + 1

RECURSIVE load_from(_, _, _)
load_from(reg, m, outcomes) ==
    IF m > NumPluginModules THEN reg
    ELSE load_from(load_module(reg, m, outcomes[m]), NextModule(m, outcomes[m]), outcomes)

\* PluginManager._load_plugins run from its first module to its last.
_load_plugins(reg, outcomes) == load_from(reg, 1, outcomes)

\* The load of the repository as shipped: only czech_plugin is there to load.
ShippedOutcomes == [m \in PluginModules |-> IF m = 1 THEN "ok" ELSE "import_error"]

\* --------------------------------------------------------- czech_plugin.py
\* Query types handed to the plugin: its three types and one it does not know.
QueryTypes == {"visa", "residence", "passport", "asylum"}

\* self.query_patterns: ^[A-Z]{letters}\d{min,max}$ per query type.
Pattern(letters, min, max) == [letters |-> letters, min |-> min, max |-> max]

query_patterns ==
    [visa |-> Pattern(3, 9, 9), residence |-> Pattern(2, 8, 8), passport |-> Pattern(2, 6, 8)]

\* str.upper() on the characters of the query codes of the model.
UpperChar(c) == CASE c = "p" -> "P" [] c = "x" -> "X" [] OTHER -> c

UpperChars(s) == [i \in 1..Len(s) |-> UpperChar(s[i])]

UpperLetters == {"P", "X"}

\* re.match(pattern, s) for a pattern ^[A-Z]{letters}\d{min,max}$: the letters,
\* then the digits, then the end of the string; $ also matches just before a
\* newline that ends the string.
re_match(pattern, s) ==
    \E k \in pattern.min..pattern.max :
        /\ \/ Len(s) = pattern.letters + k
           \/ Len(s) = pattern.letters + k + 1 /\ s[Len(s)] = "\n"
        /\ \A i \in 1..pattern.letters : s[i] \in UpperLetters
        /\ \A i \in (pattern.letters + 1)..(pattern.letters + k) : s[i] \in Digits

\* CzechPlugin.validate_query_code
CzechPlugin_validate_query_code(query_code, query_type) ==
    /\ query_type \in DOMAIN query_patterns
    /\ re_match(query_patterns[query_type], UpperChars(query_code))

\* status_scenarios of _simulate_query_result: (status, details).
status_scenarios ==
    << <<"not_found", "Application not found in the system">>,
       <<"processing", "Application is being processed">>,
       <<"under_review", "Application is under review">>,
       <<"processing", "Application is being processed">>,
       <<"approved", "Application has been approved">>,
       <<"ready_for_pickup", "Document is ready for pickup">>,
       <<"approved", "Application has been approved">>,
       <<"rejected", "Application has been rejected">>,
       <<"processing", "Application is being processed">>,
       <<"issued", "Document has been issued">> >>

\* Mutant of last_digit: the index is the number of characters of the code.
last_digit_Length(query_code) == Len(query_code) % 10

\* last_digit = int(query_code[-1]) if query_code[-1].isdigit() else 0
last_digit(query_code) ==
    IF query_code[Len(query_code)] \in Digits THEN DigitValue(query_code[Len(query_code)])
    ELSE 0

\* Mutant of _simulate_query_result: the simulation reports an error.
_simulate_query_result_Error(query_code, query_type, now) ==
    [raised |-> FALSE, index |-> 0,
     result |-> QueryResult("error", NoneValue, NoneValue, "simulation disabled", now)]

\* CzechPlugin._simulate_query_result.  query_code[-1] raises IndexError for
\* the empty code.  The details text embeds the query type.
_simulate_query_result(query_code, query_type, now) ==
    IF query_code = <<>>
    THEN [raised |-> TRUE, index |-> 0,
          result |-> QueryResult("error", NoneValue, NoneValue, "string index out of range", now)]
    ELSE [raised |-> FALSE, index |-> last_digit(query_code),
          result |-> QueryResult("success", status_scenarios[last_digit(query_code) + 1][1],
                                 <<status_scenarios[last_digit(query_code) + 1][2], query_type>>,
                                 NoneValue, now)]

\* self.status_mapping, in the order of the dict: phrase, status (phrases
\* are written without diacritics).
status_mapping ==
    << <<"nenalezeno", "not_found">>, <<"zpracovava se", "processing">>,
       <<"v rizeni", "under_review">>, <<"schvaleno", "approved">>,
       <<"zamitnuto", "rejected">>, <<"pripraveno k vyzvednuti", "ready_for_pickup">>,
       <<"vydano", "issued">>, <<"pozastaveno", "suspended">>,
       <<"not found", "not_found">>, <<"application not found", "not_found">>,
       <<"being processed", "processing">>, <<"under review", "under_review">>,
       <<"approved", "approved">>, <<"rejected", "rejected">>, <<"denied", "rejected">>,
       <<"ready for pickup", "ready_for_pickup">>, <<"issued", "issued">>,
       <<"suspended", "suspended">> >>

\* The keyword fallback of _parse_response, in the order of its elif chain.
status_keywords ==
    << <<{"not found", "nenalezeno", "neexistuje"}, "not_found">>,
       <<{"processing", "zpracovava", "probiha"}, "processing">>,
       <<{"approved", "schvaleno", "povoleno"}, "approved">>,
       <<{"rejected", "zamitnuto", "odmitnuto"}, "rejected">>,
       <<{"ready", "pripraveno", "hotovo"}, "ready_for_pickup">>,
       <<{"issued", "vydano"}, "issued">>,
       <<{"suspended", "pozastaveno"}, "suspended">> >>

\* A response body is modelled by the set of phrases that occur in it.
Pages ==
    { {"being processed", "processing"}, {"schvaleno"}, {"approved", "rejected"},
      {"ready", "hotovo"}, {"odmitnuto"}, {"dobry den"}, {} }

\* The first entry of an ordered table whose phrase occurs in the page (0: none).
FirstMapped(page) ==
    LET hits == { i \in 1..Len(status_mapping) : status_mapping[i][1] \in page }
    IN  IF hits = {} THEN 0 ELSE CHOOSE i \in hits : \A j \in hits : i <= j

FirstKeyword(page) ==
    LET hits == { i \in 1..Len(status_keywords) : status_keywords[i][1] \cap page # {} }
    IN  IF hits = {} THEN 0 ELSE CHOOSE i \in hits : \A j \in hits : i <= j

\* Mutant of detected_status: the elif chain has no final else.
detected_status_NoDefault(page) ==
    IF FirstMapped(page) # 0 THEN status_mapping[FirstMapped(page)][2]
    ELSE IF FirstKeyword(page) # 0 THEN status_keywords[FirstKeyword(page)][2]
    ELSE NoneValue

\* detected_status of _parse_response.
detected_status(page) ==
    IF FirstMapped(page) # 0 THEN status_mapping[FirstMapped(page)][2]
    ELSE IF FirstKeyword(page) # 0 THEN status_keywords[FirstKeyword(page)][2]
    ELSE "unknown"

\* CzechPlugin._parse_response for a response that could be read.
_parse_response(page, now) ==
    QueryResult("success", detected_status(page), <<"description", detected_status(page)>>,
                NoneValue, now)

\* What session.get(query_url) does: a page with a form, a page without one,
\* a 404, another HTTP error status, a timeout, a connection failure.
FetchOutcomes == {"form", "no_form", "404", "http_error", "timeout", "connection_error"}

\* The outcomes that raise a requests.exceptions.RequestException.
RequestExceptions == {"http_error", "timeout", "connection_error"}

\* What session.post does: a RequestException, or the page it returns.
Post(kind, page) == [kind |-> kind, page |-> page]

PostOutcomes ==
    { Post(k, {}) : k \in RequestExceptions } \cup { Post("page", p) : p \in Pages }

\* session.get / session.post was not reached.
NotFetched == "not_fetched"

NoPost == Post("no_post", {})

\* CzechPlugin._perform_real_query: fetch is what session.get does, post what
\* session.post does (a RequestException or the page it returns).
_perform_real_query(query_code, query_type, fetch, post, now) ==
    LET simulated == _simulate_query_result(query_code, query_type, now)
        fallback == IF simulated.raised
                    THEN QueryResult("error", NoneValue, NoneValue, "Query failed", now)
                    ELSE simulated.result
    IN  IF fetch = "404" THEN fallback
        ELSE IF fetch \in RequestExceptions THEN fallback
        ELSE IF fetch = "no_form" THEN fallback
        ELSE IF post.kind \in RequestExceptions THEN fallback
        ELSE _parse_response(post.page, now)

\* CzechPlugin._get_query_url ('' for a type without a URL).
_get_query_url(query_type) ==
    CASE query_type = "visa" -> "visa_query_url"
      [] query_type = "residence" -> "residence_query_url"
      [] query_type = "passport" -> "visa_query_url"
      [] OTHER -> ""

\* CzechPlugin.query_status.  _perform_real_query lets no exception out, so
\* the three except clauses of query_status are never entered by it.
CzechPlugin_query_status(query_code, query_type, fetch, post, now) ==
    IF _get_query_url(query_type) = ""
    THEN QueryResult("error", NoneValue, NoneValue, "Unsupported query type", now)
    ELSE [_perform_real_query(query_code, query_type, fetch, post, now)
             EXCEPT !.response_time_ms = "measured"]

\* --------------------------------------------------------- query_engine.py
\* A timestamp column that is NULL.
Unset == 0

\* A freshly registered Application: nothing observed yet.
NewApplication ==
    [latest_status |-> NoneValue, latest_details |-> NoneValue,
     last_checked |-> Unset, last_status_change |-> Unset]

\* Mutant of _log_query_result: only successful polls are logged.
_log_query_result_OnlySuccess(logs, application_id, result, log_fails) ==
    IF log_fails \/ result.status # "success" THEN logs
    ELSE Append(logs, [application_id |-> application_id, status |-> result.status,
                       application_status |-> result.application_status,
                       details |-> result.details, error_message |-> result.error,
                       query_timestamp |-> result.query_timestamp])

\* QueryEngine._log_query_result: add the QueryLog row and commit; when the
\* write fails the exception is logged, the session rolled back and the row
\* is lost.
_log_query_result(logs, application_id, result, log_fails) ==
    IF log_fails THEN logs
    ELSE Append(logs, [application_id |-> application_id, status |-> result.status,
                       application_status |-> result.application_status,
                       details |-> result.details, error_message |-> result.error,
                       query_timestamp |-> result.query_timestamp])

\* Mutant of ShouldUpdate: the entity is updated whatever the outcome.
ShouldUpdate_Always(result) == TRUE

\* execute_query updates the entity only for a success result.
ShouldUpdate(result) == result.status = "success"

\* Mutant of status_changed: every successful poll counts as a change.
status_changed_Always(application, result) == TRUE

\* status_changed of _update_application_status.
status_changed(application, result) ==
    application.latest_status # result.application_status

\* Mutant of _update_application_status: the notification is triggered
\* before the commit, so also when the commit then fails.
_update_application_status_NotifiesFirst(application, result, commit_fails) ==
    IF commit_fails
    THEN [application |-> application, notified |-> status_changed(application, result)]
    ELSE [application |->
             [latest_status |-> result.application_status,
              latest_details |-> result.details,
              last_checked |-> result.query_timestamp,
              last_status_change |->
                  IF status_changed(application, result) THEN result.query_timestamp
                  ELSE application.last_status_change],
          notified |-> status_changed(application, result)]

\* QueryEngine._update_application_status: the entity as persisted after the
\* call, and whether _trigger_status_change_notification was called.  A failed
\* commit is logged and rolled back: nothing is persisted, nothing notified.
_update_application_status(application, result, commit_fails) ==
    IF commit_fails
    THEN [application |-> application, notified |-> FALSE]
    ELSE [application |->
             [latest_status |-> result.application_status,
              latest_details |-> result.details,
              last_checked |-> result.query_timestamp,
              last_status_change |->
                  IF status_changed(application, result) THEN result.query_timestamp
                  ELSE application.last_status_change],
          notified |-> status_changed(application, result)]

\* x in the list seq.
Contains(seq, x) == \E i \in 1..Len(seq) : seq[i] = x

\* What validate_query_parameters returned and which checks it made.
Validation(value, raised, supported_calls, type_calls, validate_calls) ==
    [value |-> value, raised |-> raised, supported_calls |-> supported_calls,
     type_calls |-> type_calls, validate_calls |-> validate_calls]

\* Mutant of validate_query_parameters: the query type is not checked.
validate_query_parameters_NoTypeCheck(registry, country_code, query_type, validate_outcome) ==
    IF ~is_country_supported(registry, country_code)
    THEN Validation(FALSE, FALSE, 1, 0, 0)
    ELSE LET code == validate_query_code(registry, country_code, validate_outcome)
         IN  Validation(code.value, code.raised, 1, 0, code.validate_calls)

\* QueryEngine.validate_query_parameters: is_country_supported, then
\* get_query_types, then validate_query_code, returning False at the first
\* check that fails.  An exception of the plugin's validate_query_code is not
\* caught here: the call raises and returns nothing.
validate_query_parameters(registry, country_code, query_type, validate_outcome) ==
    IF ~is_country_supported(registry, country_code)
    THEN Validation(FALSE, FALSE, 1, 0, 0)
    ELSE IF ~Contains(get_query_types(registry, country_code), query_type)
    THEN Validation(FALSE, FALSE, 1, 1, 0)
    ELSE LET code == validate_query_code(registry, country_code, validate_outcome)
         IN  Validation(code.value, code.raised, 1, 1, code.validate_calls)

\* --------------------------------------------------------------- variables
VARIABLES
    running,      \* VisaScheduler._running
    jobs,         \* job store: the set of jobs (id, interval seconds)
    instances,    \* executor: entity id -> number of _execute_query runs in flight
    cancelling,   \* entity id -> in-flight runs whose future has been cancelled
    sched_event,  \* the last thing the scheduler did (history)
    plugins,      \* PluginManager.plugins: country code -> plugin instance
    plugin_classes, \* PluginManager.plugin_classes: country code -> module of the class
    created,      \* number of plugin instances created so far
    instantiated, \* instance id -> module of the class it was built from (history)
    load_outcomes,\* module -> what loading it does in the latest _load_plugins
    reload_pc,    \* where reload_all_plugins is (op "idle" outside)
    reloads,      \* number of reload calls so far
    before_reload,\* PluginManager.plugins when the latest reload was called (history)
    reload_ok,    \* return value of the latest reload
    lookup,       \* what a reader of the registry last observed (history)
    applications, \* persisted Application rows: entity id -> record
    query_logs,   \* persisted QueryLog rows, in insertion order
    notifications,\* calls of _trigger_status_change_notification, in order
    clock,        \* datetime.utcnow(), in polls
    last_call,    \* the last execute_query call: its inputs and what it did (history)
    parse_input,  \* the string a caller holds for _parse_interval
    parse_result, \* <<seconds>> once _parse_interval has returned, <<>> before
    caller_pc,    \* worker -> where it is inside execute_query ("idle" outside)
    caller_frame, \* worker -> the locals of its execute_query call
    czech_input,  \* the query code and query type a caller holds for the Czech plugin
    czech_out     \* the last call of a Czech plugin method and what it returned

sched_vars == <<running, jobs, instances, cancelling, sched_event>>

registry_vars == <<plugins, plugin_classes, created, instantiated, load_outcomes, reload_pc,
                   reloads, before_reload, reload_ok, lookup>>

engine_vars == <<applications, query_logs, notifications, clock, last_call>>

parse_vars == <<parse_input, parse_result>>

vars == <<running, jobs, instances, cancelling, sched_event, plugins,
          plugin_classes, created, instantiated, load_outcomes, reload_pc, reloads,
          before_reload, reload_ok, lookup,
          applications, query_logs, notifications, clock, last_call,
          parse_input, parse_result, caller_pc, caller_frame,
          czech_input, czech_out>>

czech_vars == <<czech_input, czech_out>>

caller_vars == <<caller_pc, caller_frame>>

\* For an "add" step, seconds is the interval of the job it installed and
\* replaced tells whether the entity had a job before it.
Event(kind, e, before) ==
    [kind |-> kind, entity |-> e, before |-> before, seconds |-> 0, replaced |-> FALSE]

\* Entity e has a job in the job store.
HasJob(e) == lookup_job(jobs, JobId(e)) # {}

\* VisaScheduler.__init__: no jobs, nothing running, _running = False.
SchedulerInit ==
    /\ running = FALSE
    /\ jobs = {}
    /\ instances = [e \in Entities |-> 0]
    /\ cancelling = [e \in Entities |-> 0]
    /\ sched_event = Event("init", 0, 0)

\* VisaScheduler.start
start ==
    /\ ~running
    /\ running' = TRUE
    /\ sched_event' = Event("start", 0, 0)
    /\ UNCHANGED <<jobs, instances, cancelling>>
    /\ UNCHANGED <<registry_vars, engine_vars, parse_vars, caller_vars, czech_vars>>

\* VisaScheduler.shutdown: the scheduler stops, the memory job store drops
\* its jobs and the asyncio executor cancels the futures still pending.
shutdown ==
    /\ running
    /\ running' = FALSE
    /\ jobs' = {}
    /\ cancelling' = instances
    /\ sched_event' = Event("shutdown", 0, 0)
    /\ UNCHANGED instances
    /\ UNCHANGED <<registry_vars, engine_vars, parse_vars, caller_vars, czech_vars>>

\* VisaScheduler.add_query_job: add_job(id=job_id, replace_existing=True).
add_query_job(application_id, interval) ==
    /\ jobs' = add_job(jobs, Job(application_id, _parse_interval(interval)))
    /\ sched_event' = [Event("add", application_id, instances[application_id])
                          EXCEPT !.seconds = _parse_interval(interval),
                                 !.replaced = HasJob(application_id)]
    /\ UNCHANGED <<running, instances, cancelling>>
    /\ UNCHANGED <<registry_vars, engine_vars, parse_vars, caller_vars, czech_vars>>

\* VisaScheduler.remove_query_job: a missing job raises JobLookupError inside
\* the try and is logged as a warning.
remove_query_job(application_id) ==
    /\ jobs' = remove_job(jobs, JobId(application_id)).jobs
    /\ sched_event' = Event(IF remove_job(jobs, JobId(application_id)).raised
                            THEN "remove_miss" ELSE "remove",
                            application_id, instances[application_id])
    /\ UNCHANGED <<running, instances, cancelling>>
    /\ UNCHANGED <<registry_vars, engine_vars, parse_vars, caller_vars, czech_vars>>

\* Mutant of MayStart: the admission test is off by one.
MayStart_OffByOne(n) == n <= max_instances

\* Mutant of MayStart: one run per job (max_instances left at the library's default).
MayStart_Single(n) == n < 1

\* The executor's admission test for a due job: submit_job raises
\* MaxInstancesReachedError once max_instances runs of the job are in flight.
MayStart(n) == n < max_instances

\* The interval trigger of entity e's job comes due while the scheduler runs.
\* The run is submitted unless the job already has max_instances runs in
\* flight; a run that is not submitted is skipped (logged), never queued.
TriggerFires(e) ==
    /\ Due(running, jobs, e)
    /\ IF MayStart(instances[e])
       THEN /\ instances' = [instances EXCEPT ![e] = @ + 1]
            /\ sched_event' = Event("started", e, instances[e])
       ELSE /\ instances' = instances
            /\ sched_event' = Event("dropped", e, instances[e])
    /\ UNCHANGED <<running, jobs, cancelling>>
    /\ UNCHANGED <<registry_vars, engine_vars, parse_vars, caller_vars, czech_vars>>

\* VisaScheduler._execute_query runs to its end: it logs, sleeps a random
\* delay and logs again.  It does not call the query engine.
_execute_query_returns(e) ==
    /\ instances[e] > cancelling[e]
    /\ instances' = [instances EXCEPT ![e] = @ - 1]
    /\ sched_event' = Event("finished", e, instances[e])
    /\ UNCHANGED <<running, jobs, cancelling>>
    /\ UNCHANGED <<registry_vars, engine_vars, parse_vars, caller_vars, czech_vars>>

\* A run cancelled by shutdown ends at its await with CancelledError.
_execute_query_cancelled(e) ==
    /\ cancelling[e] > 0
    /\ instances' = [instances EXCEPT ![e] = @ - 1]
    /\ cancelling' = [cancelling EXCEPT ![e] = @ - 1]
    /\ sched_event' = Event("cancelled", e, instances[e])
    /\ UNCHANGED <<running, jobs>>
    /\ UNCHANGED <<registry_vars, engine_vars, parse_vars, caller_vars, czech_vars>>

SchedulerNext ==
    \/ start
    \/ shutdown
    \/ \E e \in Entities, i \in IntervalInputs : add_query_job(e, i)
    \/ \E e \in Entities : remove_query_job(e)
    \/ \E e \in Entities : TriggerFires(e)
    \/ \E e \in Entities : _execute_query_returns(e)
    \/ \E e \in Entities : _execute_query_cancelled(e)

\* reload_all_plugins is not running / is at module m of _load_plugins.
At(op, m) == [op |-> op, module |-> m]

Idle == At("idle", 0)

\* No reader has looked anything up.
NoLookup ==
    [country_code |-> NoneValue, reload |-> 0, seen |-> EmptyDict, plugin |-> NoPlugin,
     supported |-> FALSE, countries |-> {}, query_types |-> <<>>,
     valid |-> FALSE, validate_raised |-> FALSE, connection |-> FALSE,
     result |-> QueryResult("error", NoneValue, NoneValue, NoneValue, 0),
     validate_calls |-> 0, query_calls |-> 0,
     query_type |-> NoneValue, validate_outcome |-> NotCalled,
     parameters |-> Validation(FALSE, FALSE, 0, 0, 0),
     phase |-> "none", started |-> 0, served_by |-> NoPlugin]

\* plugin_manager = PluginManager(): __init__ has run _load_plugins to its
\* end, the modules behaving as outcomes says.
RegistryLoaded(outcomes) ==
    LET reg == _load_plugins(Registry(EmptyDict, EmptyDict, 0, <<>>), outcomes)
    IN  /\ plugins = reg.plugins
        /\ plugin_classes = reg.plugin_classes
        /\ created = reg.created
        /\ instantiated = reg.instantiated
        /\ load_outcomes = outcomes
        /\ reload_pc = Idle
        /\ reloads = 0
        /\ before_reload = reg.plugins
        /\ reload_ok = TRUE
        /\ lookup = NoLookup

\* PluginManager._load_plugins at import: the one plugin module of the
\* repository (czech_plugin) registers instance 1 under "CZ".
RegistryInit == RegistryLoaded(ShippedOutcomes)

\* The registry after import for every behaviour of the modules found.
RegistryAnyInit == \E outcomes \in [PluginModules -> LoadOutcomes] : RegistryLoaded(outcomes)

\* Mutant of reload_plugin: the old instance is unregistered before the new
\* one is built, so a failed reload leaves the country without a plugin.
reload_plugin_UnregistersFirst(country_code, outcome) ==
    /\ reload_pc = Idle
    /\ reloads < MaxReloads
    /\ reloads' = reloads + 1
    /\ before_reload' = plugins
    /\ IF Upper(country_code) \in DOMAIN plugin_classes /\ outcome = "ok"
       THEN /\ plugins' = dict_set(plugins, Upper(country_code), created + 1)
            /\ created' = created + 1
            /\ instantiated' = Append(instantiated, plugin_classes[Upper(country_code)])
            /\ reload_ok' = TRUE
       ELSE /\ plugins' = [c \in (DOMAIN plugins) \ {Upper(country_code)} |-> plugins[c]]
            /\ UNCHANGED <<created, instantiated>>
            /\ reload_ok' = FALSE
    /\ UNCHANGED <<plugin_classes, load_outcomes, reload_pc, lookup>>
    /\ UNCHANGED <<sched_vars, engine_vars, parse_vars, caller_vars, czech_vars>>

\* PluginManager.reload_plugin.  Without a class for the country it returns
\* False; a constructor that raises is caught and it returns False; otherwise
\* the new instance takes the place of the old one in one assignment.
reload_plugin(country_code, outcome) ==
    /\ reload_pc = Idle
    /\ reloads < MaxReloads
    /\ reloads' = reloads + 1
    /\ before_reload' = plugins
    /\ IF Upper(country_code) \in DOMAIN plugin_classes /\ outcome = "ok"
       THEN /\ plugins' = dict_set(plugins, Upper(country_code), created + 1)
            /\ created' = created + 1
            /\ instantiated' = Append(instantiated, plugin_classes[Upper(country_code)])
            /\ reload_ok' = TRUE
       ELSE /\ UNCHANGED <<plugins, created, instantiated>>
            /\ reload_ok' = FALSE
    /\ UNCHANGED <<plugin_classes, load_outcomes, reload_pc, lookup>>
    /\ UNCHANGED <<sched_vars, engine_vars, parse_vars, caller_vars, czech_vars>>

\* reload_all_plugins, first statement: self.plugins.clear().  What the
\* modules will do in the _load_plugins to come is fixed here.
reload_all_plugins_clears_plugins ==
    /\ reload_pc = Idle
    /\ reloads < MaxReloads
    /\ reloads' = reloads + 1
    /\ before_reload' = plugins
    /\ plugins' = EmptyDict
    /\ load_outcomes' \in [PluginModules -> LoadOutcomes]
    /\ reload_pc' = At("clear_classes", 0)
    /\ UNCHANGED <<plugin_classes, created, instantiated, reload_ok, lookup>>
    /\ UNCHANGED <<sched_vars, engine_vars, parse_vars, caller_vars, czech_vars>>

\* reload_all_plugins, second statement: self.plugin_classes.clear().
reload_all_plugins_clears_classes ==
    /\ reload_pc = At("clear_classes", 0)
    /\ plugin_classes' = EmptyDict
    /\ reload_pc' = At("load", 1)
    /\ UNCHANGED <<plugins, created, instantiated, load_outcomes, reloads, before_reload,
                   reload_ok, lookup>>
    /\ UNCHANGED <<sched_vars, engine_vars, parse_vars, caller_vars, czech_vars>>

\* reload_all_plugins inside self._load_plugins(): one iteration of its loop;
\* after the last one reload_all_plugins returns True.
reload_all_plugins_loads_module ==
    LET m == reload_pc.module
        reg == load_module(Registry(plugins, plugin_classes, created, instantiated), m,
                           load_outcomes[m])
        next == NextModule(m, load_outcomes[m])
    IN  /\ reload_pc.op = "load"
        /\ plugins' = reg.plugins
        /\ plugin_classes' = reg.plugin_classes
        /\ created' = reg.created
        /\ instantiated' = reg.instantiated
        /\ IF next > NumPluginModules
           THEN reload_pc' = Idle /\ reload_ok' = TRUE
           ELSE reload_pc' = At("load", next) /\ UNCHANGED reload_ok
        /\ UNCHANGED <<load_outcomes, reloads, before_reload, lookup>>
        /\ UNCHANGED <<sched_vars, engine_vars, parse_vars, caller_vars, czech_vars>>

\* A reader calls the lookup operations of the manager for one country code,
\* at any moment, also while reload_all_plugins is between two statements.
Lookup(country_code, query_type, validate_outcome, query_outcome, connection_ok) ==
    LET status == PluginManager_query_status(plugins, country_code, validate_outcome,
                                             query_outcome, clock)
        validation == validate_query_code(plugins, country_code, validate_outcome)
    IN  /\ lookup' =
               [country_code |-> country_code,
                reload |-> IF reload_pc = Idle THEN 0 ELSE reloads,
                seen |-> plugins,
                plugin |-> get_plugin(plugins, country_code),
                supported |-> is_country_supported(plugins, country_code),
                countries |-> get_supported_countries(plugins),
                query_types |-> get_query_types(plugins, country_code),
                valid |-> validation.value,
                validate_raised |-> validation.raised,
                connection |-> test_plugin_connection(plugins, country_code, connection_ok),
                result |-> status.result,
                validate_calls |-> status.validate_calls + validation.validate_calls,
                query_calls |-> status.query_calls,
                query_type |-> query_type,
                validate_outcome |-> validate_outcome,
                parameters |-> validate_query_parameters(plugins, country_code, query_type,
                                                         validate_outcome),
                phase |-> "returned",
                started |-> reloads,
                served_by |-> get_plugin(plugins, country_code)]
        /\ UNCHANGED <<plugins, plugin_classes, created, instantiated, load_outcomes, reload_pc,
                       reloads, before_reload, reload_ok>>
        /\ UNCHANGED <<sched_vars, engine_vars, parse_vars, caller_vars, czech_vars>>

\* Country codes a reader asks for.
LookupCodes == {"CZ", "cz", "DE", "XX"}

\* What the plugin does is drawn only when there is a plugin to call.
Read(country_code) ==
    IF get_plugin(plugins, country_code) = NoPlugin
    THEN Lookup(country_code, "visa", NotCalled, OutcomeNotCalled, FALSE)
    ELSE \E validate_outcome \in ValidateOutcomes, connection_ok \in BOOLEAN :
           \E query_outcome \in
                 (IF validate_outcome = "accept" THEN CallerOutcomes ELSE {OutcomeNotCalled}) :
             Lookup(country_code, "visa", validate_outcome, query_outcome, connection_ok)

\* The same reader with every query type, a supported one or not; the plugin
\* then answers its query with a network error.
ReadType(country_code, query_type) ==
    IF get_plugin(plugins, country_code) = NoPlugin
    THEN Lookup(country_code, query_type, NotCalled, OutcomeNotCalled, FALSE)
    ELSE \E validate_outcome \in ValidateOutcomes :
           Lookup(country_code, query_type, validate_outcome,
                  IF validate_outcome = "accept"
                  THEN Outcome("result", "error", NoneValue, NoneValue, "network error")
                  ELSE OutcomeNotCalled,
                  FALSE)

RegistryNext ==
    \/ \E country_code \in LookupCodes, outcome \in {"ok", "init_error"} :
          reload_plugin(country_code, outcome)
    \/ reload_all_plugins_clears_plugins
    \/ reload_all_plugins_clears_classes
    \/ reload_all_plugins_loads_module
    \/ \E country_code \in LookupCodes : Read(country_code)

\* PluginManager.query_status, first statement: plugin = self.get_plugin(...).
\* Without a plugin the call returns its error result at once.
query_status_gets_plugin(country_code) ==
    IF get_plugin(plugins, country_code) = NoPlugin
    THEN Lookup(country_code, "visa", NotCalled, OutcomeNotCalled, FALSE)
    ELSE /\ lookup' = [NoLookup EXCEPT
                !.country_code = country_code,
                !.reload = IF reload_pc = Idle THEN 0 ELSE reloads,
                !.seen = plugins,
                !.plugin = get_plugin(plugins, country_code),
                !.supported = TRUE,
                !.phase = "obtained",
                !.started = reloads]
         /\ UNCHANGED <<plugins, plugin_classes, created, instantiated, load_outcomes, reload_pc,
                        reloads, before_reload, reload_ok>>
         /\ UNCHANGED <<sched_vars, engine_vars, parse_vars, caller_vars, czech_vars>>

\* PluginManager.query_status, last statement: plugin.safe_query_status(...)
\* returns, whatever has happened to the registry since the plugin was got.
query_status_returns(validate_outcome, query_outcome) ==
    LET status == safe_query_status(validate_outcome, query_outcome, clock)
    IN  /\ lookup.phase = "obtained"
        /\ lookup' = [lookup EXCEPT
               !.phase = "returned",
               !.served_by = serving_plugin(lookup.plugin, plugins, lookup.country_code),
               !.validate_outcome = validate_outcome,
               !.result = status.result,
               !.validate_calls = status.validate_calls,
               !.query_calls = status.query_calls]
        /\ UNCHANGED <<plugins, plugin_classes, created, instantiated, load_outcomes, reload_pc,
                       reloads, before_reload, reload_ok>>
        /\ UNCHANGED <<sched_vars, engine_vars, parse_vars, caller_vars, czech_vars>>

\* A query in two steps, while the registry is reloaded.
InFlightNext ==
    \/ \E country_code \in LookupCodes, outcome \in {"ok", "init_error"} :
          reload_plugin(country_code, outcome)
    \/ reload_all_plugins_clears_plugins
    \/ reload_all_plugins_clears_classes
    \/ reload_all_plugins_loads_module
    \/ \E country_code \in LookupCodes : query_status_gets_plugin(country_code)
    \/ \E validate_outcome \in ValidateOutcomes :
         \E query_outcome \in
               (IF validate_outcome = "accept" THEN CallerOutcomes ELSE {OutcomeNotCalled}) :
           query_status_returns(validate_outcome, query_outcome)

\* Callers validating their parameters, for every country code and type.
ParametersNext ==
    \E country_code \in LookupCodes, query_type \in QueryTypes :
       ReadType(country_code, query_type)

\* No Application has been polled, no QueryLog row written.
EngineInit ==
    /\ applications = [e \in Entities |-> NewApplication]
    /\ query_logs = <<>>
    /\ notifications = <<>>
    /\ clock = 0
    /\ last_call = [application_id |-> 0, country_code |-> NoneValue,
                    validate_outcome |-> NotCalled, query_outcome |-> OutcomeNotCalled,
                    log_fails |-> FALSE, commit_fails |-> FALSE,
                    raised |-> FALSE,
                    validate_calls |-> 0, query_calls |-> 0,
                    result |-> QueryResult("error", NoneValue, NoneValue, NoneValue, 0),
                    before |-> NewApplication, logs_before |-> 0, notifications_before |-> 0]

\* QueryEngine.execute_query for the Application application_id, as one call.
\*   country_code      the Application's country code
\*   validate_outcome  what the plugin's validate_query_code does
\*   query_outcome     what the plugin's query_status does
\*   log_fails         the QueryLog insert/commit of this call raises
\*   commit_fails      the commit of the entity update raises
execute_query(application_id, country_code, validate_outcome, query_outcome, log_fails, commit_fails) ==
    LET now == clock + 1
        application == applications[application_id]
        reg == PluginManager_query_status(plugins, country_code, validate_outcome,
                                          query_outcome, now)
        \* the result of the try block, or the error_result of the except block
        result == IF reg.raised
                  THEN QueryResult("error", NoneValue, NoneValue, reg.error, now)
                  ELSE reg.result
        logs1 == _log_query_result(query_logs, application_id, result, log_fails)
        updated == IF ~reg.raised /\ ShouldUpdate(result)
                   THEN _update_application_status(application, result, commit_fails)
                   ELSE [application |-> application, notified |-> FALSE]
    IN  /\ clock < MaxPolls
        /\ clock' = now
        /\ query_logs' = logs1
        /\ applications' = [applications EXCEPT ![application_id] = updated.application]
        /\ notifications' =
               IF updated.notified
               THEN Append(notifications,
                           [application_id |-> application_id,
                            latest_status |-> updated.application.latest_status,
                            new_status |-> result.application_status,
                            details |-> result.details,
                            timestamp |-> result.query_timestamp])
               ELSE notifications
        /\ last_call' = [application_id |-> application_id, country_code |-> country_code,
                         validate_outcome |-> validate_outcome, query_outcome |-> query_outcome,
                         log_fails |-> log_fails, commit_fails |-> commit_fails,
                         raised |-> reg.raised,
                         validate_calls |-> reg.validate_calls, query_calls |-> reg.query_calls,
                         result |-> result,
                         before |-> application, logs_before |-> Len(query_logs),
                         notifications_before |-> Len(notifications)]
        /\ UNCHANGED <<sched_vars, registry_vars, parse_vars, caller_vars, czech_vars>>

\* One poll: the plugin's behaviour is drawn when the plugin is called, the
\* outcome of the entity update's commit when the update is attempted.
Poll(e) ==
    \E country_code \in CountryCodes, log_fails \in BOOLEAN :
      \E validate_outcome \in
            (IF country_code # NoneValue /\ get_plugin(plugins, country_code) # NoPlugin
             THEN ValidateOutcomes ELSE {NotCalled}) :
        \E query_outcome \in
              (IF validate_outcome = "accept" THEN QueryOutcomes ELSE {OutcomeNotCalled}) :
          \E commit_fails \in
                (IF query_outcome.status = "success" THEN BOOLEAN ELSE {FALSE}) :
            execute_query(e, country_code, validate_outcome, query_outcome,
                          log_fails, commit_fails)

EngineNext == \E e \in Entities : Poll(e)

\* No interval string is being parsed on its own.
ParseIdle == parse_input = <<>> /\ parse_result = <<>>

\* A caller holds an interval string and has not called _parse_interval yet.
ParseInit == parse_input \in IntervalStrings /\ parse_result = <<>>

\* The call self._parse_interval(parse_input) returns.
ParseCall ==
    /\ parse_result = <<>>
    /\ parse_result' = <<_parse_interval(parse_input)>>
    /\ UNCHANGED parse_input
    /\ UNCHANGED <<sched_vars, registry_vars, engine_vars, caller_vars, czech_vars>>

ParseNext == ParseCall

\* ---- execute_query statement by statement, for workers that run it at the
\* same time, each with its own QueryEngine and Session.
Callers == 1..NumCallers

\* The locals of a worker that is not inside execute_query.
NoFrame ==
    [application_id |-> 0,
     result |-> QueryResult("error", NoneValue, NoneValue, NoneValue, 0),
     loaded |-> NewApplication, status_changed |-> FALSE]

CallersInit ==
    /\ caller_pc = [c \in Callers |-> "idle"]
    /\ caller_frame = [c \in Callers |-> NoFrame]

\* The UPDATE a Session.commit() flushes for an Application: the columns whose
\* value the session changed since it loaded the row; the others keep what
\* the database holds.
Flush(row, loaded, application) ==
    [f \in DOMAIN row |-> IF application[f] # loaded[f] THEN application[f] ELSE row[f]]

\* execute_query up to the return of plugin_manager.query_status.
execute_query_queries(c, application_id, query_outcome) ==
    /\ caller_pc[c] = "idle"
    /\ clock < MaxPolls
    /\ clock' = clock + 1
    /\ caller_frame' = [caller_frame EXCEPT ![c] =
           [application_id |-> application_id,
            result |-> PluginManager_query_status(plugins, "CZ", "accept",
                                                  query_outcome, clock + 1).result,
            loaded |-> NewApplication, status_changed |-> FALSE]]
    /\ caller_pc' = [caller_pc EXCEPT ![c] = "log"]
    /\ UNCHANGED <<applications, query_logs, notifications, last_call>>
    /\ UNCHANGED <<sched_vars, registry_vars, parse_vars, czech_vars>>

\* self._log_query_result(application, result): the row is added and
\* committed; an error result is then returned.
execute_query_logs(c) ==
    /\ caller_pc[c] = "log"
    /\ query_logs' = _log_query_result(query_logs, caller_frame[c].application_id,
                                       caller_frame[c].result, FALSE)
    /\ IF ShouldUpdate(caller_frame[c].result)
       THEN /\ caller_pc' = [caller_pc EXCEPT ![c] = "update"]
            /\ UNCHANGED caller_frame
       ELSE /\ caller_pc' = [caller_pc EXCEPT ![c] = "idle"]
            /\ caller_frame' = [caller_frame EXCEPT ![c] = NoFrame]
    /\ UNCHANGED <<applications, notifications, clock, last_call>>
    /\ UNCHANGED <<sched_vars, registry_vars, parse_vars, czech_vars>>

\* _update_application_status up to the commit: the Application, expired by
\* the commit of the log row, is loaded again when latest_status is read, and
\* status_changed is computed from what was loaded.
_update_application_status_reads(c) ==
    /\ caller_pc[c] = "update"
    /\ LET frame == caller_frame[c]
           application == applications[frame.application_id]
       IN  caller_frame' = [caller_frame EXCEPT ![c] =
               [application_id |-> frame.application_id,
                result |-> frame.result,
                loaded |-> application,
                status_changed |-> status_changed(application, frame.result)]]
    /\ caller_pc' = [caller_pc EXCEPT ![c] = "commit"]
    /\ UNCHANGED engine_vars
    /\ UNCHANGED <<sched_vars, registry_vars, parse_vars, czech_vars>>

\* self.db.commit() of the entity update, then the notification when
\* status_changed, then the return of execute_query.
_update_application_status_commits(c) ==
    LET frame == caller_frame[c]
        application == _update_application_status(frame.loaded, frame.result, FALSE).application
    IN  /\ caller_pc[c] = "commit"
        /\ applications' = [applications EXCEPT ![frame.application_id] =
                                Flush(@, frame.loaded, application)]
        /\ notifications' =
               IF frame.status_changed
               THEN Append(notifications,
                           [application_id |-> frame.application_id,
                            latest_status |-> application.latest_status,
                            new_status |-> frame.result.application_status,
                            details |-> frame.result.details,
                            timestamp |-> frame.result.query_timestamp])
               ELSE notifications
        /\ caller_pc' = [caller_pc EXCEPT ![c] = "idle"]
        /\ caller_frame' = [caller_frame EXCEPT ![c] = NoFrame]
        /\ UNCHANGED <<query_logs, clock, last_call>>
        /\ UNCHANGED <<sched_vars, registry_vars, parse_vars, czech_vars>>

CallersNext ==
    \E c \in Callers :
        \/ \E e \in Entities, o \in CallerOutcomes : execute_query_queries(c, e, o)
        \/ execute_query_logs(c)
        \/ _update_application_status_reads(c)
        \/ _update_application_status_commits(c)

\* ---- the Czech plugin's methods, called directly.
Repeat(c, n) == [i \in 1..n |-> c]

\* What may follow the digits of a code: nothing, a newline, a letter.
Tails == { <<>>, <<"\n">>, <<"X">> }

\* Numbers of digits explored: none, and the five largest up to MaxDigits.
DigitCounts == {0} \cup ((MaxDigits - 4)..MaxDigits)

\* Query codes: letters (all in one case), digits ending in any digit, a tail.
QueryCodes ==
    { Repeat(l, nl) \o Repeat("1", nd - 1) \o <<d>> \o t :
        l \in {"P", "p"}, nl \in 0..MaxLetters, nd \in DigitCounts \ {0},
        d \in Digits, t \in Tails }
    \cup { Repeat(l, nl) \o t : l \in {"P", "p"}, nl \in 0..MaxLetters, t \in Tails }

NoCzechCall ==
    [op |-> "none", valid |-> FALSE, fetch |-> NotFetched, post |-> NoPost,
     raised |-> FALSE, index |-> 0,
     result |-> QueryResult("error", NoneValue, NoneValue, NoneValue, 0)]

CzechIdle ==
    /\ czech_input = [query_code |-> <<>>, query_type |-> "visa"]
    /\ czech_out = NoCzechCall

\* A caller holds a query code and a query type.
CzechInit ==
    /\ czech_input \in [query_code : QueryCodes, query_type : QueryTypes]
    /\ czech_out = NoCzechCall

\* plugin.validate_query_code(query_code, query_type) returns.
CzechValidates ==
    /\ czech_out' = [NoCzechCall EXCEPT
           !.op = "validate",
           !.valid = CzechPlugin_validate_query_code(czech_input.query_code,
                                                     czech_input.query_type)]
    /\ UNCHANGED czech_input
    /\ UNCHANGED <<sched_vars, registry_vars, engine_vars, parse_vars, caller_vars>>

\* plugin._simulate_query_result(query_code, query_type) returns or raises.
CzechSimulates ==
    LET simulated == _simulate_query_result(czech_input.query_code,
                                            czech_input.query_type, clock)
    IN  /\ czech_out' = [NoCzechCall EXCEPT
               !.op = "simulate", !.raised = simulated.raised,
               !.index = simulated.index, !.result = simulated.result]
        /\ UNCHANGED czech_input
        /\ UNCHANGED <<sched_vars, registry_vars, engine_vars, parse_vars, caller_vars>>

\* plugin.query_status(query_code, query_type) returns, the network having
\* behaved as fetch and post say.
CzechQueries(fetch, post) ==
    /\ czech_out' = [NoCzechCall EXCEPT
           !.op = "query", !.fetch = fetch, !.post = post,
           !.result = CzechPlugin_query_status(czech_input.query_code,
                                               czech_input.query_type, fetch, post, clock)]
    /\ UNCHANGED czech_input
    /\ UNCHANGED <<sched_vars, registry_vars, engine_vars, parse_vars, caller_vars>>

\* The network is drawn only as far as query_status reaches it.
CzechNext ==
    \/ CzechValidates
    \/ CzechSimulates
    \/ \E fetch \in (IF _get_query_url(czech_input.query_type) = ""
                      THEN {NotFetched} ELSE FetchOutcomes) :
          \E post \in (IF fetch = "form" THEN PostOutcomes ELSE {NoPost}) :
            CzechQueries(fetch, post)

Init ==
    SchedulerInit /\ RegistryInit /\ EngineInit /\ ParseIdle /\ CallersInit /\ CzechIdle

Next == SchedulerNext \/ EngineNext

SchedulerSpec == Init /\ [][SchedulerNext]_vars

EngineSpec == Init /\ [][EngineNext]_vars

Spec == Init /\ [][Next]_vars

\* _parse_interval on its own, applied to every string of IntervalStrings.
InitParse ==
    SchedulerInit /\ RegistryInit /\ EngineInit /\ ParseInit /\ CallersInit /\ CzechIdle

ParseSpec == InitParse /\ [][ParseNext]_vars

\* The registry with a reloader and a reader whose calls interleave.
InitRegistry ==
    SchedulerInit /\ RegistryAnyInit /\ EngineInit /\ ParseIdle /\ CallersInit /\ CzechIdle

RegistrySpec == InitRegistry /\ [][RegistryNext]_vars

\* PluginManager.query_status in flight while reload_plugin or
\* reload_all_plugins runs.
InFlightSpec == InitRegistry /\ [][InFlightNext]_vars

\* validate_query_parameters against every registry that loading can build.
ParametersSpec == InitRegistry /\ [][ParametersNext]_vars

\* The methods of the Czech plugin on every query code and query type.
InitCzech ==
    SchedulerInit /\ RegistryInit /\ EngineInit /\ ParseIdle /\ CallersInit /\ CzechInit

CzechSpec == InitCzech /\ [][CzechNext]_vars

\* execute_query run by NumCallers workers whose statements interleave.
CallersSpec == Init /\ [][CallersNext]_vars

\* ================================================================== claims
\* The last execute_query call and its entity.
Polled == last_call.application_id # 0

PolledApplication == applications[last_call.application_id]

NewLogs == Len(query_logs) - last_call.logs_before

NewNotifications == Len(notifications) - last_call.notifications_before

C5_ErrorKeepsLastKnownStatus ==
    (Polled /\ last_call.result.status = "error") =>
        /\ PolledApplication.latest_status = last_call.before.latest_status
        /\ PolledApplication.last_status_change = last_call.before.last_status_change
        /\ NewNotifications = 0

C5_Witness ==
    /\ Polled /\ last_call.result.status = "error"
    /\ last_call.before.latest_status \in ObservedStatuses
    /\ PolledApplication.latest_status = last_call.before.latest_status

\* ---- C6 (as stated): when execute_query returns a success-kind result (no
\* persistence error surfaced), the QueryLog row and the entity update of
\* that poll are both persisted.
C6_LogAndUpdateBothPersisted ==
    (Polled /\ last_call.result.status = "success") =>
        /\ NewLogs = 1
        /\ PolledApplication.last_checked = last_call.result.query_timestamp

\* ---- C7 (as stated): a poll in which a persistence write fails is
\* reported to its caller as failed (an error-kind result).
C7_PersistenceFailureSurfaced ==
    (Polled /\ (last_call.log_fails \/ last_call.commit_fails)) =>
        last_call.result.status = "error"

\* ---- C8 (as stated): a scheduler tick that has run to completion has been
\* followed by a QueryLog row for its entity.
C8_FinishedTickHasLog ==
    sched_event.kind = "finished" =>
        \E i \in 1..Len(query_logs) : query_logs[i].application_id = sched_event.entity

\* ---- C9: safe_query_status calls validate_query_code first; when it rejects,
\* the result is error-kind and query_status is not called; when it accepts,
\* query_status is called exactly once.
C9_ValidationGatesQuery ==
    (Polled /\ last_call.validate_calls = 1) =>
        /\ last_call.validate_outcome = "reject" =>
              (last_call.result.status = "error" /\ last_call.query_calls = 0)
        /\ last_call.validate_outcome = "accept" => last_call.query_calls = 1

C9_Witness ==
    /\ Polled /\ last_call.validate_calls = 1
    /\ last_call.validate_outcome = "reject"
    /\ last_call.result.status = "error" /\ last_call.query_calls = 0

\* ---- C10: for every country code, PluginManager.query_status (and the
\* plugin's safe_query_status under it) returns a QueryResult and raises
\* nothing, whatever validate_query_code and query_status do; the result is
\* error-kind when one of them raised or query_status returned no result.
C10_NoExceptionEscapesRegistry ==
    (Polled /\ last_call.country_code # NoneValue) =>
        /\ ~last_call.raised
        /\ last_call.result.status \in {"success", "error"}
        /\ (\/ last_call.validate_outcome = "raise"
            \/ last_call.query_outcome.kind \in {"raise", "none"})
              => last_call.result.status = "error"

C10_Witness ==
    /\ Polled /\ last_call.query_outcome.kind = "raise"
    /\ ~last_call.raised /\ last_call.result.status = "error"

\* ---- C11 (as stated): execute_query raises nothing, and a failure raised
\* while querying the registry, writing the log or updating the entity makes
\* it return an error-kind result that is also the last QueryLog row.
C11_FailuresBecomeLoggedErrorResults ==
    (Polled /\ (last_call.raised \/ last_call.log_fails \/ last_call.commit_fails)) =>
        /\ last_call.result.status = "error"
        /\ NewLogs = 1
        /\ query_logs[Len(query_logs)].status = "error"
        /\ query_logs[Len(query_logs)].application_id = last_call.application_id

\* ---- C12 (as stated): _parse_interval returns n*60, n*3600, n*86400,
\* n*604800 for <integer n><unit> with unit m, h, d, w (in either case), and
\* the default 3600 for every other string.
Parsed == parse_result # <<>>

ClaimedUnits == {"m", "h", "d", "w"}

HasClaimedForm(s) ==
    /\ s # <<>>
    /\ Lower(s[Len(s)]) \in ClaimedUnits
    /\ IsIntLiteral(ButLast(s))

C12_ParseIntervalAsStated ==
    Parsed =>
        parse_result[1] =
            IF HasClaimedForm(parse_input)
            THEN IntOf(ButLast(parse_input)) * multipliers(Lower(parse_input[Len(parse_input)]))
            ELSE default_interval

\* The scheduler step just taken was of this kind, for entity e.
Did(kind, e) == sched_event'.kind = kind /\ sched_event'.entity = e

\* The jobs of the other entities.
JobsOfOthers(store, e) == store \ lookup_job(store, JobId(e))

RECURSIVE InFlightUpTo(_)
InFlightUpTo(n) == IF n = 0 THEN 0 ELSE instances[n] + InFlightUpTo(n - 1)

TotalInFlight == InFlightUpTo(NumEntities)

\* ---- C16 (as stated): the number of ticks in flight, summed over all
\* entities, stays within one fixed bound (the one limit the scheduler is
\* configured with) however many entities are scheduled.
C16_GlobalCap == TotalInFlight <= max_instances

\* Notifications i < j are about the same entity, with none for it between.
NextNotificationOfEntity(i, j) ==
    /\ i < j
    /\ notifications[i].application_id = notifications[j].application_id
    /\ \A k \in (i + 1)..(j - 1) :
           notifications[k].application_id # notifications[i].application_id

\* ---- C17 (as stated): executions of execute_query for one entity do not
\* interleave, so a status change is detected once: two notifications in a
\* row for one entity never announce the same status.
C17_ChangeDetectedOnce ==
    \A i, j \in 1..Len(notifications) :
        NextNotificationOfEntity(i, j) =>
            notifications[i].new_status # notifications[j].new_status

\* The latest lookup was made while the latest reload was between two of its
\* statements, and that reload has returned since.
LookedUpDuringReload ==
    /\ lookup.reload # 0
    /\ lookup.reload = reloads
    /\ reload_pc = Idle

\* ---- C18 (as stated): a lookup made while a reload is running observes the
\* instance map as it was before the reload or as it is after it, and a
\* country supported before and after the reload is reported as supported.
C18_ReloadAtomicForReaders ==
    LookedUpDuringReload =>
        /\ lookup.seen \in {before_reload, plugins}
        /\ (/\ is_country_supported(before_reload, lookup.country_code)
            /\ is_country_supported(plugins, lookup.country_code)) => lookup.supported

\* ---- C19: for a country code without a registered plugin get_plugin returns
\* None, is_country_supported False, get_query_types the empty list,
\* validate_query_code False, test_plugin_connection False, and query_status
\* an error result saying that no plugin is available; no plugin method is
\* called.
C19_UnregisteredCountry ==
    (lookup.country_code # NoneValue
       /\ Upper(lookup.country_code) \notin DOMAIN lookup.seen) =>
        /\ lookup.plugin = NoPlugin
        /\ ~lookup.supported
        /\ lookup.query_types = <<>>
        /\ ~lookup.valid /\ ~lookup.validate_raised
        /\ ~lookup.connection
        /\ lookup.result.status = "error"
        /\ lookup.result.error = "No plugin available for country"
        /\ lookup.validate_calls = 0 /\ lookup.query_calls = 0

\* An unregistered country has been looked up in a registry that holds a
\* plugin for another country.
C19_Witness ==
    /\ lookup.country_code = "XX"
    /\ lookup.seen # EmptyDict
    /\ lookup.result.status = "error"

\* The modules whose import and constructor succeed in the latest load.
Instantiable == { m \in PluginModules : load_outcomes[m] = "ok" }

\* ---- C20: once _load_plugins has run to its end, every module whose import
\* and constructor succeeded is registered under its country code, whatever
\* the other modules did, nothing else is registered, and each registered
\* country code has one instance of its own.
C20_LoadIsolatesFailures ==
    reload_pc = Idle =>
        /\ DOMAIN plugins = { get_country_code(m) : m \in Instantiable }
        /\ DOMAIN plugin_classes = DOMAIN plugins
        /\ \A c \in DOMAIN plugins : plugins[c] \in 1..created
        /\ \A c1, c2 \in DOMAIN plugins : plugins[c1] = plugins[c2] => c1 = c2

\* reload_all_plugins has returned from a load in which the first module
\* failed and a later module was registered.
C20_Witness ==
    /\ reload_pc = Idle /\ reloads > 0 /\ before_reload # plugins
    /\ load_outcomes[1] = "init_error"
    /\ \E m \in PluginModules : m > 1 /\ get_country_code(m) \in DOMAIN plugins

\* A network call of the latest query_status failed: the page fetch or the
\* form submission timed out, could not connect or got an HTTP error status.
NetworkCallFailed ==
    /\ czech_out.op = "query"
    /\ czech_out.fetch \in RequestExceptions \/ czech_out.post.kind \in RequestExceptions

\* ---- C21 (as stated): a query_status of the Czech plugin whose page fetch
\* or form submission failed returns an error-kind result with an error text,
\* never a success-kind one.
C21_NetworkFailureIsError ==
    NetworkCallFailed =>
        /\ czech_out.result.status = "error"
        /\ czech_out.result.error # NoneValue

\* The last character of the code the caller holds.
LastChar == czech_input.query_code[Len(czech_input.query_code)]

Accepted ==
    CzechPlugin_validate_query_code(czech_input.query_code, czech_input.query_type)

\* The last digit that occurs in a code that has one.
FinalDigit(code) ==
    LET positions == { i \in 1..Len(code) : code[i] \in Digits }
    IN  DigitValue(code[CHOOSE i \in positions : \A j \in positions : j <= i])

\* ---- C23 (as stated): for a code accepted by validate the simulated status
\* is the table entry at the code's final digit, an index within 0..9, so
\* that two accepted codes with the same final digit get the same status.
C23_SimulationByFinalDigit ==
    (czech_out.op = "simulate" /\ Accepted) =>
        /\ ~czech_out.raised
        /\ czech_out.index \in 0..9
        /\ czech_out.index = FinalDigit(czech_input.query_code)
        /\ czech_out.result.application_status =
               status_scenarios[FinalDigit(czech_input.query_code) + 1][1]

\* The code consists of exactly nl letters followed by nd digits.
LettersThenDigits(code, nl, nd) ==
    /\ Len(code) = nl + nd
    /\ \A i \in 1..nl : code[i] \in {"P", "p", "X", "x"}
    /\ \A i \in (nl + 1)..(nl + nd) : code[i] \in Digits

\* ---- C29 (as stated): validate_query_code of the Czech plugin returns true
\* exactly for visa with 3 letters + 9 digits, residence with 2 letters + 8
\* digits and passport with 2 letters + 6 to 8 digits.
C29_ValidateExactlyTheFormats ==
    czech_out.op = "validate" =>
        (czech_out.valid <=>
            \/ czech_input.query_type = "visa"
                 /\ LettersThenDigits(czech_input.query_code, 3, 9)
            \/ czech_input.query_type = "residence"
                 /\ LettersThenDigits(czech_input.query_code, 2, 8)
            \/ czech_input.query_type = "passport"
                 /\ \E nd \in 6..8 : LettersThenDigits(czech_input.query_code, 2, nd))


\* What _trigger_status_change_notification was given by the last poll.
LastNotification == notifications[Len(notifications)]

\* ---- C24 (as stated): a success-kind poll of an entity whose latest_status
\* is unset notifies nobody, and a poll notifies only when a stored status
\* is replaced by a different one.
C24_FirstObservationIsSilent ==
    Polled =>
        /\ (last_call.result.status = "success" /\ last_call.before.latest_status = NoneValue)
              => NewNotifications = 0
        /\ NewNotifications > 0 =>
              /\ last_call.before.latest_status # NoneValue
              /\ last_call.before.latest_status # PolledApplication.latest_status

\* ---- C25 (as stated): on a detected change the notification is given the
\* entity id, the status stored before the poll, the new status, the details
\* and the timestamp; the old status given differs from the new one.  Stated
\* for an entity that had a status stored before the poll.
C25_NotificationCarriesOldAndNew ==
    (Polled /\ NewNotifications = 1 /\ last_call.before.latest_status # NoneValue) =>
        /\ LastNotification.application_id = last_call.application_id
        /\ LastNotification.latest_status = last_call.before.latest_status
        /\ LastNotification.new_status = last_call.result.application_status
        /\ LastNotification.latest_status # LastNotification.new_status
        /\ LastNotification.details = last_call.result.details
        /\ LastNotification.timestamp = last_call.result.query_timestamp

\* ---- C26 (as stated): a poll that validate_query_code rejects, before
\* query_status is called, writes no QueryLog row.
C26_ValidationErrorNotLogged ==
    (Polled /\ last_call.validate_outcome = "reject") =>
        /\ last_call.query_calls = 0
        /\ NewLogs = 0

\* ---- C27 (as stated): when execute_query returns a success-kind result the
\* persisted entity has the result's status, details and timestamp, whether
\* or not the status changed.
C27_SuccessIsPersisted ==
    (Polled /\ last_call.result.status = "success") =>
        /\ PolledApplication.latest_status = last_call.result.application_status
        /\ PolledApplication.latest_details = last_call.result.details
        /\ PolledApplication.last_checked = last_call.result.query_timestamp


\* ---- C28 (as stated): when shutdown has returned no tick is in flight
\* (every tick running at the call has finished or ended cancelled), and a
\* tick starts only while the scheduler runs, so none starts after shutdown.
C28_ShutdownLeavesNothingInFlight ==
    /\ sched_event.kind = "shutdown" => (~running /\ TotalInFlight = 0)
    /\ sched_event.kind = "started" => running


\* ---- C30: validate_query_parameters returns true exactly when the country
\* is supported, the query type is one of that country's types and the plugin
\* accepts the code; the type check is made only for a supported country and
\* the plugin's validate_query_code is called only when country and type are
\* both supported.
C30_ValidationShortCircuits ==
    LET supported == Upper(lookup.country_code) \in DOMAIN lookup.seen
        type_ok == lookup.query_type \in {"visa", "residence", "passport"}
    IN  lookup.country_code # NoneValue =>
            /\ lookup.parameters.supported_calls = 1
            /\ lookup.parameters.value <=>
                   (supported /\ type_ok /\ lookup.validate_outcome = "accept")
            /\ lookup.parameters.type_calls = (IF supported THEN 1 ELSE 0)
            /\ lookup.parameters.validate_calls = (IF supported /\ type_ok THEN 1 ELSE 0)

\* A supported country with an unsupported query type: the plugin's
\* validate_query_code was not called although it would have accepted.
C30_Witness ==
    /\ lookup.country_code = "cz"
    /\ lookup.query_type = "asylum"
    /\ lookup.validate_outcome = "accept"
    /\ lookup.parameters.type_calls = 1
    /\ lookup.parameters.validate_calls = 0
    /\ ~lookup.parameters.value


\* The normalized status vocabulary.
StatusVocabulary ==
    {"not_found", "processing", "under_review", "approved", "rejected",
     "ready_for_pickup", "issued", "suspended", "unknown"}

\* The phrases _parse_response knows.
KnownPhrases ==
    { status_mapping[i][1] : i \in 1..Len(status_mapping) }
    \cup UNION { status_keywords[i][1] : i \in 1..Len(status_keywords) }

\* The latest query_status parsed the page that session.post returned.
ParsedResponse ==
    czech_out.op = "query" /\ czech_out.fetch = "form" /\ czech_out.post.kind = "page"

\* ---- C31: every success-kind result of the Czech plugin, parsed or
\* simulated, has an application status of the status vocabulary, and a
\* parsed response in which no known phrase occurs has the status unknown.
C31_ClosedStatusVocabulary ==
    /\ (czech_out.op \in {"query", "simulate"} /\ czech_out.result.status = "success")
          => czech_out.result.application_status \in StatusVocabulary
    /\ (ParsedResponse /\ czech_out.post.page \cap KnownPhrases = {})
          => (czech_out.result.status = "success"
              /\ czech_out.result.application_status = "unknown")

\* A response with a phrase that is not a status phrase was parsed.
C31_Witness ==
    /\ ParsedResponse
    /\ czech_out.post.page = {"dobry den"}
    /\ czech_out.result.application_status = "unknown"


\* The query recorded in lookup got its plugin before the latest reload began.
GotPluginBeforeReload == lookup.phase # "none" /\ lookup.started < reloads

\* ---- C32: a query that got its plugin instance before a reload is served
\* by that instance and returns its result, whatever the registry holds by
\* then; a query that starts once the reload has returned gets the instance
\* registered by then.
C32_InFlightQueryKeepsItsInstance ==
    /\ (lookup.phase = "returned" /\ lookup.plugin # NoPlugin) =>
          /\ lookup.served_by = lookup.plugin
          /\ lookup.plugin = get_plugin(lookup.seen, lookup.country_code)
          /\ lookup.result.status \in {"success", "error"}
          /\ lookup.result.error # "No plugin available for country"
    /\ (lookup.phase # "none" /\ lookup.started = reloads /\ reload_pc = Idle
          /\ lookup.reload = 0) =>
          lookup.plugin = get_plugin(plugins, lookup.country_code)

\* A query returned a success from the instance it had got before a reload
\* that registered another instance for its country.
C32_Witness ==
    /\ GotPluginBeforeReload
    /\ lookup.phase = "returned"
    /\ reload_pc = Idle
    /\ get_plugin(plugins, lookup.country_code) \notin {NoPlugin, lookup.plugin}
    /\ lookup.served_by = lookup.plugin
    /\ lookup.result.status = "success"


\* ---- C33 (as stated): the number of seconds _parse_interval returns is a
\* strictly positive integer for every interval string.
C33_IntervalIsPositive ==
    Parsed => (parse_result[1] \in Int /\ parse_result[1] > 0)


\* ---- C34: a poll whose entity update fails to commit triggers no
\* notification, and a poll that triggers one has its entity update
\* persisted.
C34_NotifyOnlyAfterCommit ==
    Polled =>
        /\ last_call.commit_fails => NewNotifications = 0
        /\ NewNotifications > 0 =>
              /\ ~last_call.commit_fails
              /\ PolledApplication.latest_status = last_call.result.application_status
              /\ PolledApplication.last_checked = last_call.result.query_timestamp

\* The commit of a changed status failed and nobody was notified.
C34_Witness ==
    /\ Polled /\ last_call.commit_fails
    /\ last_call.result.status = "success"
    /\ last_call.before.latest_status = "processing"
    /\ last_call.result.application_status = "approved"
    /\ PolledApplication = last_call.before
    /\ NewNotifications = 0


\* The trigger of an entity: the intervals of the jobs stored under its job
\* id (empty when it has none).
TriggerOf(store, e) == { j.seconds : j \in lookup_job(store, JobId(e)) }

\* ---- C35: distinct entity ids have distinct job ids, and add_query_job and
\* remove_query_job for one entity leave the trigger of every other entity,
\* its existence and its interval, as it was.
C35_OtherTriggersUntouched ==
    /\ [](\A e1, e2 \in Entities : e1 # e2 => JobId(e1) # JobId(e2))
    /\ [][\A e \in Entities :
            (Did("add", e) \/ Did("remove", e) \/ Did("remove_miss", e)) =>
                \A other \in Entities \ {e} :
                    TriggerOf(jobs', other) = TriggerOf(jobs, other)]_vars

\* Entity 1 has just been given another interval while entity 2 keeps its
\* one-minute trigger.
C35_Witness ==
    /\ sched_event.kind = "add" /\ sched_event.entity = 1 /\ sched_event.replaced
    /\ TriggerOf(jobs, 1) = {7200}
    /\ TriggerOf(jobs, 2) = {60}


\* ---- C36: a poll with an error-kind result leaves the whole entity as it
\* was, last_checked and latest_details included, and notifies nobody: all it
\* may add is its QueryLog row.
C36_ErrorPollOnlyLogs ==
    (Polled /\ last_call.result.status = "error") =>
        /\ PolledApplication.last_checked = last_call.before.last_checked
        /\ PolledApplication.latest_details = last_call.before.latest_details
        /\ PolledApplication = last_call.before
        /\ NewNotifications = 0
        /\ NewLogs <= 1
        /\ NewLogs = 1 => /\ query_logs[Len(query_logs)].status = "error"
                          /\ query_logs[Len(query_logs)].application_id = last_call.application_id

\* An entity checked before at time 1 was polled with an error at time 2.
C36_Witness ==
    /\ Polled /\ last_call.result.status = "error"
    /\ last_call.result.query_timestamp = 2
    /\ last_call.before.last_checked = 1
    /\ last_call.before.latest_details = "d1"
    /\ PolledApplication.last_checked = 1
    /\ NewLogs = 1


\* ---- C37 (as stated): last_checked of an entity never decreases, and when
\* last_status_change and last_checked are both set, last_status_change is
\* not later than last_checked.
C37_TimestampsOrdered ==
    /\ [][\A e \in Entities :
            applications'[e].last_checked >= applications[e].last_checked]_vars
    /\ [](\A e \in Entities :
            (applications[e].last_status_change # Unset
               /\ applications[e].last_checked # Unset) =>
                applications[e].last_status_change <= applications[e].last_checked)


\* The step is a call of reload_plugin that returns False.
ReloadPluginFailed ==
    /\ reload_pc = Idle /\ reload_pc' = Idle
    /\ reloads' = reloads + 1
    /\ ~reload_ok'

\* ---- C38: a reload_plugin that fails (no class for the country code, or
\* the constructor raises) returns False and leaves both maps of the registry
\* as they were: every country keeps its instance and get_plugin returns it.
C38_FailedReloadKeepsRegistry ==
    [][ReloadPluginFailed =>
          /\ plugins' = plugins
          /\ plugin_classes' = plugin_classes
          /\ \A c \in LookupCodes : get_plugin(plugins', c) = get_plugin(plugins, c)]_vars

\* reload_plugin has returned False and the plugin for CZ is still there.
C38_Witness ==
    /\ reloads > 0 /\ ~reload_ok /\ reload_pc = Idle
    /\ "CZ" \in DOMAIN plugin_classes
    /\ get_plugin(plugins, "cz") # NoPlugin
    /\ plugins = before_reload


\* ---- C39: whenever no reload is running (after construction and after
\* every reload_plugin and reload_all_plugins), the instance map and the
\* class map have the same country codes, the instance under a code was
\* built from the class under that code, and get_plugin_stats reports as
\* total_plugins the number of supported countries.
C39_MapsAgree ==
    reload_pc = Idle =>
        /\ DOMAIN plugins = DOMAIN plugin_classes
        /\ \A c \in DOMAIN plugins :
              /\ plugins[c] \in 1..Len(instantiated)
              /\ instantiated[plugins[c]] = plugin_classes[c]
        /\ get_plugin_stats(plugins).total_plugins =
               Cardinality(get_plugin_stats(plugins).supported_countries)
        /\ get_plugin_stats(plugins).supported_countries = DOMAIN plugin_classes

\* A reload has returned True with some superseded instance and two
\* countries registered.
C39_Witness ==
    /\ reloads > 0 /\ reload_pc = Idle /\ reload_ok
    /\ Cardinality(DOMAIN plugins) = 2
    /\ created > Cardinality(DOMAIN plugins)
    /\ get_plugin_stats(plugins).total_plugins = 2

====
